---- MODULE Spec2Model ----
(***************************************************************************)
(* Model of mtg-filter.py: CardFilter (from_args, filter, matches, match)  *)
(* and the main() driver.                                                  *)
(*                                                                         *)
(* Python values are encoded with one shape per kind so that they can be   *)
(* compared:                                                               *)
(*   an option of argparse    [some |-> BOOLEAN, v |-> value]  (None when  *)
(*                            some is FALSE)                               *)
(*   a face key holding a list [has |-> BOOLEAN, v |-> sequence] (the key  *)
(*                            is absent when has is FALSE)                 *)
(*   power / toughness        [kind |-> "missing" | "null" | "str",        *)
(*                             v |-> sequence of one-character strings]    *)
(*   convertedManaCost        [kind |-> "missing" | "null" | "num",        *)
(*                             v |-> integer]                              *)
(* A predicate evaluates to "T", "F" or the name of the exception raised.  *)
(***************************************************************************)
EXTENDS Integers, Sequences, FiniteSets, TLC

VARIABLES args, file, criteria, accepted, required, card_dict, idx, kept,
          filtered_cards, pidx, printed, pc, err

vars == <<args, file, criteria, accepted, required, card_dict, idx, kept,
          filtered_cards, pidx, printed, pc, err>>

(* ---------------------------------------------------------------- bounds *)
MaxCards == 2
MaxTotalFaces == 2
MaxInt == 2
MaxLen == 2

(* ------------------------------------------------------- Python helpers  *)
Range(s) == {s[i] : i \in 1..Len(s)}

SeqsUpTo(S, n) == UNION {[1..k -> S] : k \in 0..n}

NoneOpt == [some |-> FALSE, v |-> 0]
NoneList == [some |-> FALSE, v |-> <<>>]
SomeOpt(x) == [some |-> TRUE, v |-> x]

\* bool(x) of an option holding a list: None and [] are falsy
TruthyList(o) == o.some /\ Len(o.v) > 0

\* bool(x) of an option holding an int: None and 0 are falsy
TruthyInt(o) == o.some /\ o.v # 0

Digits == {"0", "1", "2", "3", "4", "5", "6", "7", "8", "9"}

\* characters for which str.isnumeric() is true but which int() rejects
VulgarNumerics == {"\\u00bd"}

DigitValue(c) ==
  CASE c = "0" -> 0 [] c = "1" -> 1 [] c = "2" -> 2 [] c = "3" -> 3
    [] c = "4" -> 4 [] c = "5" -> 5 [] c = "6" -> 6 [] c = "7" -> 7
    [] c = "8" -> 8 [] c = "9" -> 9

\* str.isnumeric(): non-empty and every character numeric
isnumeric(s) == Len(s) > 0 /\ \A i \in 1..Len(s) : s[i] \in Digits \cup VulgarNumerics

\* int(s) accepts digit strings only (the strings here carry no sign or space)
IntParses(s) == Len(s) > 0 /\ \A i \in 1..Len(s) : s[i] \in Digits

RECURSIVE IntOf(_)
IntOf(s) == IF Len(s) = 0 THEN 0
            ELSE 10 * IntOf(SubSeq(s, 1, Len(s) - 1)) + DigitValue(s[Len(s)])

\* face.get(key) of power / toughness: a missing key reads as None
Get(field) == IF field.kind = "missing" THEN [kind |-> "null", v |-> field.v] ELSE field

\* "not p" for a string or None
FalsyStr(p) == p.kind = "null" \/ Len(p.v) = 0

\* "not cmc" for a number or None
FalsyNum(c) == c.kind = "null" \/ c.v = 0

B(b) == IF b THEN "T" ELSE "F"

(* ----------------------------------------------- predicates of from_args *)

\* variant of colors_all_check with the operands of <= exchanged
colors_all_check_swapped(a, face) ==
  IF ~face.colors.has THEN "KeyError"
  ELSE B(Range(face.colors.v) \subseteq Range(a.colors_all.v))

\* line 25: lambda face: set(args.colors_all) <= set(face['colors'])
colors_all_check(a, face) ==
  IF ~face.colors.has THEN "KeyError"
  ELSE B(Range(a.colors_all.v) \subseteq Range(face.colors.v))

\* line 31: lambda face: set(face['colors']) <= accepted
\* (accepted is the enclosing function's variable, read when the lambda runs)
colors_only_check(acc, face) ==
  IF ~face.colors.has THEN "KeyError"
  ELSE B(Range(face.colors.v) \subseteq acc)

\* lines 36-43 and 49-56, on the field and the two bounds
range_check(field, lo, hi) ==
  LET p == Get(field)
      min == IF TruthyInt(lo) THEN lo ELSE NoneOpt
      max == IF TruthyInt(hi) THEN hi ELSE NoneOpt
      minOr0 == IF TruthyInt(min) THEN min.v ELSE 0
      maxOr9999 == IF TruthyInt(max) THEN max.v ELSE 9999
  IN IF FalsyStr(p) \/ ~isnumeric(p.v) THEN "F"
     ELSE IF ~IntParses(p.v) THEN "ValueError"
     ELSE B(minOr0 <= IntOf(p.v) /\ IntOf(p.v) <= maxOr9999)

power_check(a, face) == range_check(face.power, a.power_min, a.power_max)

toughness_check(a, face) == range_check(face.toughness, a.tough_min, a.tough_max)

\* variant of types_all_check reading the key with face.get('types', [])
types_all_check_get(req, face) ==
  B(req \subseteq (IF face.types.has THEN Range(face.types.v) ELSE {}))

\* line 63: lambda face: required <= set(face['types'])
types_all_check(req, face) ==
  IF ~face.types.has THEN "KeyError"
  ELSE B(req \subseteq Range(face.types.v))

\* line 69: lambda face: set(face['types']) <= accepted
types_only_check(acc, face) ==
  IF ~face.types.has THEN "KeyError"
  ELSE B(Range(face.types.v) \subseteq acc)

\* lines 74-81
cmc_check(a, face) ==
  LET cmc == Get(face.convertedManaCost)
      min == IF TruthyInt(a.cmc_min) THEN a.cmc_min.v ELSE 0
      max == IF TruthyInt(a.cmc_max) THEN a.cmc_max.v ELSE 9999
  IN IF FalsyNum(cmc) THEN "F"
     ELSE B(min <= cmc.v /\ cmc.v <= max)

\* the call criterion(face) for the criterion tagged tag, in the closure
\* environment (a, acc, req)
Call(tag, a, acc, req, face) ==
  CASE tag = "colors_all" -> colors_all_check(a, face)
    [] tag = "colors_only" -> colors_only_check(acc, face)
    [] tag = "power" -> power_check(a, face)
    [] tag = "toughness" -> toughness_check(a, face)
    [] tag = "types_all" -> types_all_check(req, face)
    [] tag = "types_only" -> types_only_check(acc, face)
    [] tag = "cmc" -> cmc_check(a, face)

(* ------------------------------------------------------------ CardFilter *)

CriteriaTags == <<"colors_all", "colors_only", "power", "toughness",
                  "types_all", "types_only", "cmc">>

If(c, tag) == IF c THEN <<tag>> ELSE <<>>

\* lines 19-82: the list criteria that from_args builds, in append order
from_args_criteria(a) ==
     If(TruthyList(a.colors_all), "colors_all")
  \o If(TruthyList(a.colors_only), "colors_only")
  \o If(TruthyInt(a.power_min) \/ TruthyInt(a.power_max), "power")
  \o If(TruthyInt(a.tough_min) \/ TruthyInt(a.tough_max), "toughness")
  \o If(TruthyList(a.types_all), "types_all")
  \o If(TruthyList(a.types_only), "types_only")
  \o If(TruthyInt(a.cmc_min) \/ TruthyInt(a.cmc_max), "cmc")

\* lines 30 and 68: both assign the one local variable accepted of from_args;
\* its value when from_args returns is what either lambda reads
from_args_accepted(a) ==
  LET after30 == IF TruthyList(a.colors_only) THEN Range(a.colors_only.v) ELSE {}
  IN IF TruthyList(a.types_only) THEN Range(a.types_only.v) ELSE after30

\* line 62
from_args_required(a) ==
  IF TruthyList(a.types_all) THEN Range(a.types_all.v) ELSE {}

\* line 11: self.criteria = criteria if criteria else None
CardFilterInit(crit) ==
  IF Len(crit) > 0 THEN [none |-> FALSE, v |-> crit] ELSE [none |-> TRUE, v |-> <<>>]

\* line 103 over criteria[k..]: any() stops at the first criterion that
\* rejects, an exception of a criterion propagates
RECURSIVE match_from(_, _, _, _, _, _)
match_from(crit, k, a, acc, req, face) ==
  IF k > Len(crit) THEN "T"
  ELSE LET r == Call(crit[k], a, acc, req, face)
       IN IF r = "T" THEN match_from(crit, k + 1, a, acc, req, face) ELSE r

\* lines 101-103: iterating self.criteria = None raises TypeError
match(c, a, acc, req, face) ==
  IF c.none THEN "TypeError" ELSE match_from(c.v, 1, a, acc, req, face)

\* variant of matches_from whose else belongs to the if: it returns on the
\* first face
matches_from_first(c, a, acc, req, faces, j) ==
  IF j > Len(faces) THEN "F" ELSE match(c, a, acc, req, faces[j])

\* lines 94-99 over faces[j..]
RECURSIVE matches_from(_, _, _, _, _, _)
matches_from(c, a, acc, req, faces, j) ==
  IF j > Len(faces) THEN "F"
  ELSE LET r == match(c, a, acc, req, faces[j])
       IN IF r = "F" THEN matches_from(c, a, acc, req, faces, j + 1) ELSE r

matches(c, a, acc, req, faces) == matches_from(c, a, acc, req, faces, 1)

(* ------------------------------------------------------------------ main *)

\* line 129: card_filter = CardFilter.from_args(args)
FromArgs ==
  /\ pc = "from_args"
  /\ criteria' = CardFilterInit(from_args_criteria(args))
  /\ accepted' = from_args_accepted(args)
  /\ required' = from_args_required(args)
  /\ pc' = "load"
  /\ UNCHANGED <<args, file, card_dict, idx, kept, filtered_cards, pidx, printed, err>>

\* lines 131-134: open, json.load, data['data']
LoadData ==
  /\ pc = "load"
  /\ IF file.kind = "ok"
     THEN /\ card_dict' = file.data
          /\ pc' = "filter"
          /\ err' = err
     ELSE /\ card_dict' = card_dict
          /\ pc' = "failed"
          /\ err' = IF file.kind = "missing" THEN "FileNotFoundError"
                                             ELSE "JSONDecodeError"
  /\ UNCHANGED <<args, file, criteria, accepted, required, idx, kept,
                 filtered_cards, pidx, printed>>

\* variant of FilterCard that prints a name as soon as its card is kept
FilterCard_printing ==
  /\ pc = "filter"
  /\ idx <= Len(card_dict)
  /\ LET r == matches(criteria, args, accepted, required, card_dict[idx].faces)
     IN IF r \in {"T", "F"}
        THEN /\ kept' = IF r = "T" THEN Append(kept, card_dict[idx]) ELSE kept
             /\ printed' = IF r = "T" THEN Append(printed, card_dict[idx].name) ELSE printed
             /\ idx' = idx + 1
             /\ UNCHANGED <<pc, err>>
        ELSE /\ pc' = "failed"
             /\ err' = r
             /\ UNCHANGED <<kept, idx, printed>>
  /\ UNCHANGED <<args, file, criteria, accepted, required, card_dict,
                 filtered_cards, pidx>>

\* lines 88-92: one iteration of the dict comprehension of filter
FilterCard ==
  /\ pc = "filter"
  /\ idx <= Len(card_dict)
  /\ LET r == matches(criteria, args, accepted, required, card_dict[idx].faces)
     IN IF r \in {"T", "F"}
        THEN /\ kept' = IF r = "T" THEN Append(kept, card_dict[idx]) ELSE kept
             /\ idx' = idx + 1
             /\ UNCHANGED <<pc, err>>
        ELSE /\ pc' = "failed"
             /\ err' = r
             /\ UNCHANGED <<kept, idx>>
  /\ UNCHANGED <<args, file, criteria, accepted, required, card_dict,
                 filtered_cards, pidx, printed>>

\* line 136: the comprehension is exhausted, filtered_cards is bound
FilterReturn ==
  /\ pc = "filter"
  /\ idx > Len(card_dict)
  /\ filtered_cards' = kept
  /\ pc' = "print"
  /\ UNCHANGED <<args, file, criteria, accepted, required, card_dict, idx, kept,
                 pidx, printed, err>>

\* lines 137-138: one iteration of the print loop
PrintName ==
  /\ pc = "print"
  /\ pidx <= Len(filtered_cards)
  /\ printed' = Append(printed, filtered_cards[pidx].name)
  /\ pidx' = pidx + 1
  /\ UNCHANGED <<args, file, criteria, accepted, required, card_dict, idx, kept,
                 filtered_cards, pc, err>>

\* the print loop is exhausted, main returns
Finish ==
  /\ pc = "print"
  /\ pidx > Len(filtered_cards)
  /\ pc' = "done"
  /\ UNCHANGED <<args, file, criteria, accepted, required, card_dict, idx, kept,
                 filtered_cards, pidx, printed, err>>

Next == FromArgs \/ LoadData \/ FilterCard \/ FilterReturn \/ PrintName \/ Finish

(* ---------------------------------------------------------------- inputs *)

Colors == {"R", "G"}
Types == {"Creature", "Land"}

\* keys of the input mapping, in file order (not sorted)
CardNames == <<"Wurm", "Forest", "Bear", "Zap">>

NoArgs ==
  [colors_all |-> NoneList, colors_only |-> NoneList,
   power_min |-> NoneOpt, power_max |-> NoneOpt,
   tough_min |-> NoneOpt, tough_max |-> NoneOpt,
   types_all |-> NoneList, types_only |-> NoneList,
   cmc_min |-> NoneOpt, cmc_max |-> NoneOpt]

\* nargs="*": None when the option is absent, else a list of zero or more values
ListOpts(S, n) == {NoneList} \cup {SomeOpt(s) : s \in SeqsUpTo(S, n)}

\* type=int: None when the option is absent, else an integer
IntOpts(S) == {NoneOpt} \cup {SomeOpt(i) : i \in S}

Str(s) == [kind |-> "str", v |-> s]
Num(n) == [kind |-> "num", v |-> n]
Missing == [kind |-> "missing", v |-> <<>>]
MissingNum == [kind |-> "missing", v |-> 0]
Key(l) == [has |-> TRUE, v |-> l]
NoKey == [has |-> FALSE, v |-> <<>>]

\* sequences of at most c face lists holding at most t faces in all
RECURSIVE FaceLists(_, _, _)
FaceLists(F, c, t) ==
  IF c = 0 THEN {<<>>}
  ELSE {<<>>} \cup UNION {{<<fs>> \o rest : fs \in [1..k -> F],
                                            rest \in FaceLists(F, c - 1, t - k)}
                          : k \in 0..t}

\* the mapping name -> faces as the ordered sequence of its items
Named(fl) == [i \in 1..Len(fl) |-> [name |-> CardNames[i], faces |-> fl[i]]]

OkFile(d) == [kind |-> "ok", data |-> d]
MissingFile == [kind |-> "missing", data |-> <<>>]
MalformedFile == [kind |-> "malformed", data |-> <<>>]

Files(F, c, t) == {MissingFile, MalformedFile} \cup {OkFile(Named(fl)) : fl \in FaceLists(F, c, t)}

InitWith(A, D) ==
  /\ args \in A
  /\ file \in D
  /\ criteria = [none |-> TRUE, v |-> <<>>]
  /\ accepted = {}
  /\ required = {}
  /\ card_dict = <<>>
  /\ idx = 1
  /\ kept = <<>>
  /\ filtered_cards = <<>>
  /\ pidx = 1
  /\ printed = <<>>
  /\ pc = "from_args"
  /\ err = "none"

\* faces of the main specification: colors and types present or not
MainFaces ==
  {[colors |-> c, types |-> t, power |-> Str(<<"1">>), toughness |-> Str(<<"1">>),
    convertedManaCost |-> Num(1)]
     : c \in {NoKey, Key(<<>>), Key(<<"R">>)}, t \in {NoKey, Key(<<"Creature">>)}}

MainArgs ==
  {[NoArgs EXCEPT !.colors_all = ca, !.colors_only = co, !.types_all = ta,
                  !.power_min = pm]
     : ca \in {NoneList, SomeOpt(<<"R">>)},
       co \in {NoneList, SomeOpt(<<"R">>)},
       ta \in {NoneList, SomeOpt(<<"Creature">>)},
       pm \in IntOpts({1})}

Init == InitWith(MainArgs, Files(MainFaces, MaxCards, MaxTotalFaces))

Spec == Init /\ [][Next]_vars

(* -------------------------------- inputs for the set-valued categories *)

\* faces whose colors and types are any short list, or absent
SetFaces ==
  {[colors |-> c, types |-> t, power |-> Str(<<"1">>), toughness |-> Str(<<"1">>),
    convertedManaCost |-> Num(1)]
     : c \in {NoKey} \cup {Key(l) : l \in SeqsUpTo(Colors, MaxLen)},
       t \in {NoKey, Key(<<>>), Key(<<"Creature">>)}}

SetArgs ==
  {[NoArgs EXCEPT !.colors_all = ca, !.colors_only = co,
                  !.types_all = ta, !.types_only = to]
     : ca \in ListOpts(Colors, MaxLen), co \in ListOpts(Colors, 1),
       ta \in ListOpts({"Creature"}, 1), to \in ListOpts({"Creature"}, 1)}

InitSets == InitWith(SetArgs, Files(SetFaces, 1, 1))

SpecSets == InitSets /\ [][Next]_vars

(* ------------------------------------ inputs for the range categories *)

PowerStrings ==
  {Missing, [kind |-> "null", v |-> <<>>], Str(<<>>), Str(<<"*">>), Str(<<"0">>),
   Str(<<"1">>), Str(<<"1", "0">>), Str(<<"\\u00bd">>)}

RangeFaces ==
  {[colors |-> Key(<<>>), types |-> Key(<<"Creature">>), power |-> p, toughness |-> t,
    convertedManaCost |-> c]
     : p \in PowerStrings, t \in {Missing, Str(<<"1">>)},
       c \in {MissingNum, [kind |-> "null", v |-> 0], Num(0), Num(1)}}

RangeArgs ==
  {[NoArgs EXCEPT !.power_min = pl, !.power_max = ph, !.tough_min = tl,
                  !.tough_max = th, !.cmc_min = cl, !.cmc_max = ch]
     : pl \in IntOpts(-1..MaxInt), ph \in IntOpts(-1..MaxInt),
       tl \in IntOpts({0, 1}), th \in IntOpts({0, 1}),
       cl \in IntOpts(0..MaxInt), ch \in IntOpts(0..MaxInt)}

InitRanges == InitWith(RangeArgs, Files(RangeFaces, 1, 1))

SpecRanges == InitRanges /\ [][Next]_vars

(* ================================================================ claims *)

\* where main is
FilterBuilt == pc # "from_args"
FilterFailed == pc = "failed" /\ err \notin {"FileNotFoundError", "JSONDecodeError"}
FilterReturned == pc \in {"print", "done"}
FilterEnded == FilterFailed \/ FilterReturned

\* the call of the k-th criterion of the filter on a face
CallK(k, face) == Call(criteria.v[k], args, accepted, required, face)

\* match and matches of the filter that main built
Match(face) == match(criteria, args, accepted, required, face)
Matches(faces) == matches(criteria, args, accepted, required, faces)

NoCategory(a) ==
  /\ ~a.colors_all.some /\ ~a.colors_only.some /\ ~a.types_all.some /\ ~a.types_only.some
  /\ ~a.power_min.some /\ ~a.power_max.some /\ ~a.tough_min.some /\ ~a.tough_max.some
  /\ ~a.cmc_min.some /\ ~a.cmc_max.some

WellFormed(face) == face.colors.has /\ face.types.has

\* C1: with no category active, filter returns normally, its result is the
\* input mapping (same cards, same faces, same order), and match is true of
\* every face.
C1_NoCategoryIdentity ==
  (/\ NoCategory(args) /\ FilterEnded
   /\ \A i \in 1..Len(card_dict) : \A j \in 1..Len(card_dict[i].faces) :
         WellFormed(card_dict[i].faces[j])) =>
     /\ FilterReturned
     /\ filtered_cards = card_dict
     /\ \A i \in 1..Len(card_dict) : \A j \in 1..Len(card_dict[i].faces) :
           Match(card_dict[i].faces[j]) = "T"

\* a face satisfies every predicate of the Criterion Set
SatisfiesAll(face) == \A k \in 1..Len(criteria.v) : CallK(k, face) = "T"

\* a card has a face that satisfies every predicate
KeepCard(card) == \E j \in 1..Len(card.faces) : SatisfiesAll(card.faces[j])

\* C6: on well-formed cards filter returns exactly the cards with a face that
\* satisfies every predicate, each with its faces, in the input's order.
C6_FilterExactSubset ==
  (FilterEnded /\ \A i \in 1..Len(card_dict) : \A j \in 1..Len(card_dict[i].faces) :
                     WellFormed(card_dict[i].faces[j])) =>
     /\ FilterReturned
     /\ filtered_cards = SelectSeq(card_dict, KeepCard)

\* C7 as stated: matches(card) is true iff match is true of at least one face
\* of the card, and is false without raising on a card without faces.
C7_MatchesIffSomeFace ==
  (pc = "load" /\ file.kind = "ok") =>
     \A i \in 1..Len(file.data) :
        LET faces == file.data[i].faces
        IN /\ (Matches(faces) = "T") <=> (\E j \in 1..Len(faces) : Match(faces[j]) = "T")
           /\ Len(faces) = 0 => Matches(faces) = "F"

\* C7 amended: matches(card) is true iff match is true of some face and false
\* of every face before it; it is false iff match is false of every face (so
\* false without raising on a card without faces); otherwise it raises what
\* match raises on the first face on which match is not false.  The card is
\* kept by filter iff matches is true.
C7_MatchesFirstOutcome ==
  (pc \in {"load", "filter"} /\ file.kind = "ok") =>
     \A i \in 1..Len(file.data) :
        LET faces == file.data[i].faces
            Before(j) == \A h \in 1..(j - 1) : Match(faces[h]) = "F"
        IN /\ pc = "load" =>
                 /\ (Matches(faces) = "T") <=>
                       (\E j \in 1..Len(faces) : Match(faces[j]) = "T" /\ Before(j))
                 /\ (Matches(faces) = "F") <=> Before(Len(faces) + 1)
                 /\ \A j \in 1..Len(faces) :
                       (Match(faces[j]) \notin {"T", "F"} /\ Before(j)) =>
                          Matches(faces) = Match(faces[j])
           /\ (pc = "filter" /\ i < idx) =>
                 ((\E n \in 1..Len(kept) : kept[n] = card_dict[i])
                    <=> (\E j \in 1..Len(faces) : Match(faces[j]) = "T" /\ Before(j)))

\* a card whose second face matches after a first face that does not has
\* been evaluated by filter and kept
C7_Witness ==
  /\ pc = "filter" /\ idx > 1 /\ Len(kept) > 0
  /\ \E i \in 1..(idx - 1) :
        /\ Len(card_dict[i].faces) >= 2
        /\ Match(card_dict[i].faces[1]) = "F"
        /\ Match(card_dict[i].faces[2]) = "T"
        /\ kept[Len(kept)] = card_dict[i]

\* the key that the criterion tagged tag looks up with face[key]
ReadsMissingKey(tag, face) ==
  \/ tag \in {"colors_all", "colors_only"} /\ ~face.colors.has
  \/ tag \in {"types_all", "types_only"} /\ ~face.types.has

MissesKey(face) == ~face.colors.has \/ ~face.types.has

\* outcome of the criteria on a face, stated criterion by criterion
AcceptedUpTo(face, k) == \A h \in 1..(k - 1) : CallK(h, face) = "T"
Rejects(face) == \E k \in 1..Len(criteria.v) : CallK(k, face) = "F" /\ AcceptedUpTo(face, k)
LooksUpMissing(face) ==
  \E k \in 1..Len(criteria.v) : ReadsMissingKey(criteria.v[k], face) /\ AcceptedUpTo(face, k)

\* outcome of the faces of a card, stated face by face
CardLooksUpMissing(faces) ==
  \E j \in 1..Len(faces) : LooksUpMissing(faces[j]) /\ \A h \in 1..(j - 1) : Rejects(faces[h])
CardDecided(faces) ==
  \/ \A j \in 1..Len(faces) : Rejects(faces[j])
  \/ \E j \in 1..Len(faces) : SatisfiesAll(faces[j]) /\ \A h \in 1..(j - 1) : Rejects(faces[h])

\* the evaluation of filter reaches a lookup of a key that a face lacks
ReachesMissingKey ==
  /\ ~criteria.none
  /\ \E i \in 1..Len(card_dict) :
        /\ CardLooksUpMissing(card_dict[i].faces)
        /\ \A h \in 1..(i - 1) : CardDecided(card_dict[h].faces)

\* C8 as stated: whenever the dataset has a face without colors or without
\* types, filter does not return a result.
C8_MissingKeyAlwaysFatal ==
  (\E i \in 1..Len(card_dict) : \E j \in 1..Len(card_dict[i].faces) :
       MissesKey(card_dict[i].faces[j])) => ~FilterReturned

\* C8 amended: filter ends with the uncaught lookup failure exactly when its
\* evaluation reaches a predicate that reads a key the face lacks (every
\* earlier card decided, every earlier face of the card rejected, every
\* earlier predicate accepting the face); it then returns no result and
\* nothing is printed.  A face without the key is not looked up, and does not
\* fail the run, when no active predicate reads the key, when an earlier
\* face of its card matched or when an earlier predicate rejected it.
C8_MissingKeyFatalWhenReached ==
  FilterEnded =>
     /\ (pc = "failed" /\ err = "KeyError") <=> ReachesMissingKey
     /\ err = "KeyError" =>
           /\ printed = <<>> /\ filtered_cards = <<>>
           /\ \E k \in 1..Len(criteria.v) :
                 \E j \in 1..Len(card_dict[idx].faces) :
                    ReadsMissingKey(criteria.v[k], card_dict[idx].faces[j])

\* filter failed with the lookup failure on a face that is not the first of
\* the dataset
C8_Witness ==
  /\ pc = "failed" /\ err = "KeyError" /\ idx = 2
  /\ Len(card_dict[2].faces) = 2
  /\ ~MissesKey(card_dict[2].faces[1])
  /\ MissesKey(card_dict[2].faces[2])

NamesOf(cs) == [n \in 1..Len(cs) |-> cs[n].name]

\* C10: no name is printed before filter has passed over the whole dataset;
\* a failed run prints nothing; a completed run prints exactly the keys of
\* the filtered mapping, one per line, in the input's key order.
C10_NoPartialOutput ==
  /\ Len(printed) > 0 => (FilterReturned /\ idx > Len(card_dict))
  /\ pc = "failed" => printed = <<>>
  /\ pc = "done" =>
        /\ printed = NamesOf(filtered_cards)
        /\ LET Printed(c) == \E n \in 1..Len(printed) : printed[n] = c.name
           IN printed = NamesOf(SelectSeq(card_dict, Printed))

\* a run completed after printing two names
C10_Witness == pc = "done" /\ Len(printed) = 2 /\ Len(card_dict) = 2

(* ------------------------------------------- claims about the predicates *)

Built(tag) == FilterBuilt /\ \E k \in 1..Len(criteria.v) : criteria.v[k] = tag

\* an element of a list, stated position by position
InList(x, l) == \E n \in 1..Len(l) : l[n] = x
ListWithin(l, m) == \A n \in 1..Len(l) : InList(l[n], m)

\* C2: whenever accepted colors is given, the accepted-colors predicate that
\* from_args built accepts a face iff every color of the face is one of the
\* accepted colors, whatever the other categories hold.
C2_AcceptedColorsSubset ==
  (pc = "load" /\ Built("colors_only")) =>
     \A face \in SetFaces :
        face.colors.has =>
           ((colors_only_check(accepted, face) = "T")
              <=> ListWithin(face.colors.v, args.colors_only.v))

\* C9: the required-colors predicate built for R accepts a face iff every
\* color of R is a color of the face, and whenever the predicate built for a
\* larger set R2 accepts a face the one built for R accepts it too.
C9_RequiredColorsMonotone ==
  /\ (pc = "load" /\ Built("colors_all")) =>
        \A face \in SetFaces :
           face.colors.has =>
              /\ (colors_all_check(args, face) = "T")
                    <=> ListWithin(args.colors_all.v, face.colors.v)
              /\ \A l2 \in SeqsUpTo(Colors, MaxLen) :
                    (/\ ListWithin(args.colors_all.v, l2)
                     /\ colors_all_check([args EXCEPT !.colors_all = SomeOpt(l2)], face) = "T")
                       => colors_all_check(args, face) = "T"
  /\ (/\ Built("colors_all") /\ Len(criteria.v) = 1 /\ pc = "filter" /\ idx = 2
      /\ Len(card_dict[1].faces) = 1 /\ card_dict[1].faces[1].colors.has) =>
        ((kept = <<card_dict[1]>>)
           <=> ListWithin(args.colors_all.v, card_dict[1].faces[1].colors.v))

\* filter evaluated, with one required color, a face of two colors (kept) 
C9_Witness ==
  /\ Built("colors_all") /\ Len(criteria.v) = 1 /\ pc = "filter" /\ idx = 2
  /\ Len(args.colors_all.v) = 1
  /\ Len(card_dict[1].faces) = 1
  /\ card_dict[1].faces[1].colors.has
  /\ Cardinality(Range(card_dict[1].faces[1].colors.v)) = 2
  /\ kept = <<card_dict[1]>>

\* a category is present: its option is given (a list of zero or more
\* values), or either of its bounds is given (any integer)
Present(tag, a) ==
  CASE tag = "colors_all" -> a.colors_all.some
    [] tag = "colors_only" -> a.colors_only.some
    [] tag = "power" -> a.power_min.some \/ a.power_max.some
    [] tag = "toughness" -> a.tough_min.some \/ a.tough_max.some
    [] tag = "types_all" -> a.types_all.some
    [] tag = "types_only" -> a.types_only.some
    [] tag = "cmc" -> a.cmc_min.some \/ a.cmc_max.some

\* C3: the Criterion Set holds exactly one predicate per present category
\* and none for an absent one.
C3_OnePredicatePerPresentCategory ==
  FilterBuilt =>
     \A t \in 1..Len(CriteriaTags) :
        Cardinality({k \in 1..Len(criteria.v) : criteria.v[k] = CriteriaTags[t]})
           = IF Present(CriteriaTags[t], args) THEN 1 ELSE 0

\* the bound of a range: the given one, or the default when it is not given
GivenOr(o, d) == IF o.some THEN o.v ELSE d

\* C4: when a mana-cost bound is given and 0 lies in [min, max], a card all
\* of whose faces have convertedManaCost = 0 is not in the result of filter.
C4_ZeroCostRejected ==
  (/\ FilterReturned
   /\ args.cmc_min.some \/ args.cmc_max.some
   /\ GivenOr(args.cmc_min, 0) <= 0 /\ 0 <= GivenOr(args.cmc_max, 9999)) =>
     \A i \in 1..Len(card_dict) :
        (\A j \in 1..Len(card_dict[i].faces) :
            card_dict[i].faces[j].convertedManaCost = Num(0))
          => ~InList(card_dict[i], filtered_cards)

\* the field is a string of decimal digits
DigitString(f) == f.kind = "str" /\ Len(f.v) > 0 /\ \A n \in 1..Len(f.v) : f.v[n] \in Digits

\* the field is absent (no key, or null) or is a string that is not numeric
AbsentOrNonNumeric(f) ==
  f.kind \in {"missing", "null"} \/ \A n \in 1..Len(f.v) : f.v[n] \notin Digits \cup VulgarNumerics

\* the claimed range test on a field, for bounds lo and hi
ClaimedRange(check, f, lo, hi) ==
  /\ AbsentOrNonNumeric(f) => check # "T"
  /\ DigitString(f) =>
        ((check = "T")
           <=> (GivenOr(lo, 0) <= IntOf(f.v) /\ IntOf(f.v) <= GivenOr(hi, 9999)))

\* C5: when a power (toughness) bound is given, the power (toughness)
\* predicate accepts a face iff the field is a numeric string whose value
\* lies in [given min or 0, given max or 9999]; an absent or non-numeric
\* field is rejected.
C5_RangeIffNumericInBounds ==
  pc = "load" =>
     \A face \in RangeFaces :
        /\ ((args.power_min.some \/ args.power_max.some) /\ Built("power")) =>
              ClaimedRange(power_check(args, face), face.power,
                           args.power_min, args.power_max)
        /\ ((args.tough_min.some \/ args.tough_max.some) /\ Built("toughness")) =>
              ClaimedRange(toughness_check(args, face), face.toughness,
                           args.tough_min, args.tough_max)

====
